---- MODULE Spec2Model ----
(***************************************************************************)
(* The conversion-model notebook (jupyter-checkpoint.ipynb) as a state     *)
(* machine: load and merge, feature encoding, chronological 70/15/15       *)
(* split, the Optuna search, the final fit and evaluation, and the export  *)
(* of the two artifacts.  Library calls (pandas, XGBoost, scikit-learn,    *)
(* Optuna, joblib) are modelled by what they do to the notebook's names.   *)
(***************************************************************************)
EXTENDS Integers, Sequences, FiniteSets, TLC

VARIABLES
    pc,           \* the notebook's position: the next cell (or step of a cell) to run
    err,          \* "" or the place where the run stopped with an exception
    sessions,     \* sessions.csv: rows [session_id, session_start, f, converted], file order
    sessCols,     \* column names of sessions.csv
    campCols,     \* column names of campaigns.csv
    xgbFit,       \* the library's fit outcome of a trial, per suggested parameter set
    data_df,      \* the merged table's rows
    columns,      \* data_df.columns
    features,     \* the feature list
    X_columns,    \* the columns of X = data_df[features]
    train_size,
    tune_size,
    trialNo,      \* trials the study has run
    completed,    \* parameter sets of completed trials, in order of first completion
    best,         \* the study's best trial: None or Some([params, value])
    best_params,
    final_model,  \* None or Some(the fitted classifier)
    test_auc,
    disk,         \* conversion_model.joblib and model_features.joblib
    reads,        \* slices read so far by fit/predict/score calls
    scored,       \* how many times the test slice was scored
    reloaded_auc, \* the score a consumer of the two files gets on the test slice
    hpc,          \* pure-function harness: position
    hIn,          \* pure-function harness: input
    hOut,         \* pure-function harness: result
    slides,       \* pitch deck: the number of .slide elements of the page
    currentSlide,
    totalSlides,
    active,       \* pitch deck: the indices of the slides of class 'active'
    prevDisabled, \* pitch deck: prevBtn.disabled
    nextDisabled, \* pitch deck: nextBtn.disabled
    slideCounter, \* pitch deck: the two numbers of the text 'Slide i of n'
    loaded        \* pitch deck: the page's script has run

vars == <<pc, err, sessions, sessCols, campCols, xgbFit, data_df, columns, features,
          X_columns, train_size, tune_size, trialNo, completed, best, best_params, final_model,
          test_auc, disk, reads, scored, reloaded_auc, hpc, hIn, hOut,
          slides, currentSlide, totalSlides, active, prevDisabled, nextDisabled,
          slideCounter, loaded>>

pipeVars == <<pc, err, sessions, sessCols, campCols, xgbFit, data_df, columns, features,
              X_columns, train_size, tune_size, trialNo, completed, best, best_params, final_model,
              test_auc, disk, reads, scored, reloaded_auc>>

deckVars == <<slides, currentSlide, totalSlides, active, prevDisabled, nextDisabled,
              slideCounter, loaded>>

harnessVars == <<hpc, hIn, hOut, deckVars>>

(***************************************************************************)
(* Bounds of the model.                                                    *)
(***************************************************************************)
\* Largest number of session records of a pipeline run.
MaxN == 14
\* Largest record count the split arithmetic is applied to on its own.
MaxSplitN == 100
\* Largest table and latest timestamp of the sort-and-split harness.
MaxSortN == 7
MaxTs == 2

(***************************************************************************)
(* int(0.7 * n) and int(0.15 * n): an IEEE-754 double product, rounded to  *)
(* nearest-even at 53 significant bits, then truncated.  The product is    *)
(* kept in limbs of 15 bits (TLC's integers are 32 bits wide); n < 2^15.   *)
(***************************************************************************)
Limb == 2^15

\* The double nearest 0.7 is Mant07 * 2^-Exp07 (0x1.6666666666666p-1).
Mant07 == <<26214, 19660, 6553, 179>>
Exp07 == 53
\* The double nearest 0.15 is Mant15 * 2^-Exp15 (0x1.3333333333333p-3).
Mant15 == <<13107, 26214, 19660, 153>>
Exp15 == 55
\* Significant bits of a double.
DoubleBits == 53

RECURSIVE BitLen(_)
BitLen(x) == IF x = 0 THEN 0 ELSE 1 + BitLen(x \div 2)

\* n * mant exactly, as five limbs, least significant first.
MulLimbs(n, mant) ==
    LET t1 == n * mant[1]
        t2 == n * mant[2] + t1 \div Limb
        t3 == n * mant[3] + t2 \div Limb
        t4 == n * mant[4] + t3 \div Limb
    IN  <<t1 % Limb, t2 % Limb, t3 % Limb, t4 % Limb, t4 \div Limb>>

BitLenLimbs(p) ==
    IF \A i \in 1..Len(p) : p[i] = 0 THEN 0
    ELSE LET top == CHOOSE i \in 1..Len(p) : p[i] # 0 /\ \A j \in (i+1)..Len(p) : p[j] = 0
         IN  15 * (top - 1) + BitLen(p[top])

\* int(c * n) for the double c = mant * 2^-exp, 45 <= exp < 60.
FloatMulTrunc(n, mant, exp) ==
    LET p == MulLimbs(n, mant)
        r == exp - 45
        whole == p[5] * 2^(15 - r) + p[4] \div 2^r
        e == IF BitLenLimbs(p) > DoubleBits THEN BitLenLimbs(p) - DoubleBits ELSE 0
        \* the discarded bits round the product up to the next whole number
        carries == /\ e >= 1
                   /\ p[4] % 2^r = 2^r - 1
                   /\ p[3] = Limb - 1
                   /\ p[2] = Limb - 1
                   /\ p[1] >= Limb - 2^(e - 1)
    IN  IF carries THEN whole + 1 ELSE whole

TrainSize(n) == FloatMulTrunc(n, Mant07, Exp07)
\* A tuning slice that takes every record after the training slice.
TuneSizeRest(n) == n - FloatMulTrunc(n, Mant07, Exp07)
TuneSize(n) == FloatMulTrunc(n, Mant15, Exp15)

\* Python's s[a:b] on a sequence (0-based, end exclusive), clipped to the sequence.
Clip(i, n) == IF i < 0 THEN 0 ELSE IF i > n THEN n ELSE i
PySlice(s, a, b) == SubSeq(s, Clip(a, Len(s)) + 1, Clip(b, Len(s)))

TrainSlice(t, tr, tu) == PySlice(t, 0, tr)
TuneSlice(t, tr, tu) == PySlice(t, tr, tr + tu)
TestSlice(t, tr, tu) == PySlice(t, tr + tu, Len(t))

(***************************************************************************)
(* pandas: sort_values, merge, get_dummies, column selection.              *)
(***************************************************************************)
\* Insert row r into the time-sorted s: after its ties (a stable sort) or before them.
RECURSIVE InsertSorted(_, _, _)
InsertSorted(r, s, afterTies) ==
    IF s = <<>> THEN <<r>>
    ELSE IF (afterTies /\ r.session_start < Head(s).session_start) \/ (~afterTies /\ r.session_start <= Head(s).session_start)
         THEN <<r>> \o s
         ELSE <<Head(s)>> \o InsertSorted(r, Tail(s), afterTies)

RECURSIVE SortRows(_, _)
SortRows(t, afterTies) ==
    IF t = <<>> THEN <<>>
    ELSE InsertSorted(t[Len(t)], SortRows(SubSeq(t, 1, Len(t) - 1), afterTies), afterTies)

\* The table left in file order.
SortValuesNone(t) == {t}
\* data_df.sort_values('session_start'): the default quicksort is not stable, so rows
\* with equal timestamps may come out in either order.
SortValues(t) == {SortRows(t, TRUE), SortRows(t, FALSE)}

Range(s) == {s[i] : i \in 1..Len(s)}

RECURSIVE SelectSeq2(_, _)
\* the elements of s (in order) that are in the set keep
SelectSeq2(s, keep) ==
    IF s = <<>> THEN <<>>
    ELSE (IF Head(s) \in keep THEN <<Head(s)>> ELSE <<>>) \o SelectSeq2(Tail(s), keep)

Col(name) == <<name>>

\* pd.merge(sessions_df, campaigns_df, on='campaign_id', how='left'): the left columns,
\* then the right columns without the key; a name on both sides gets _x and _y.
MergeColumns(left, right) ==
    LET key == Col("campaign_id")
        both == (Range(left) \cap Range(right)) \ {key}
        l == [i \in 1..Len(left) |-> IF left[i] \in both THEN left[i] \o <<"x">> ELSE left[i]]
        rest == SelectSeq2(right, Range(right) \ {key})
        r == [i \in 1..Len(rest) |-> IF rest[i] \in both THEN rest[i] \o <<"y">> ELSE rest[i]]
    IN  l \o r

\* data_df[name] = ...: a new column goes last, an existing one is overwritten in place.
AssignColumn(cols, name) == IF name \in Range(cols) THEN cols ELSE Append(cols, name)

categorical_cols ==
    <<Col("utm_source"), Col("utm_medium"), Col("creative_format"),
      Col("creative_theme"), Col("effectiveness_tier")>>

\* The values a categorical column takes in the data, in sorted order.
CategoryValues == <<"a", "b">>

RECURSIVE DummyColumns(_)
\* the indicator columns of the encoded columns cs: one per value, then the NaN one
DummyColumns(cs) ==
    IF cs = <<>> THEN <<>>
    ELSE [i \in 1..Len(CategoryValues) |-> Head(cs) \o <<CategoryValues[i]>>]
         \o <<Head(cs) \o <<"nan">>>> \o DummyColumns(Tail(cs))

\* pd.get_dummies(data_df, columns=categorical_cols, dummy_na=True)
GetDummies(cols) ==
    SelectSeq2(cols, Range(cols) \ Range(categorical_cols)) \o DummyColumns(categorical_cols)

target == Col("converted")

features_to_exclude ==
    <<Col("session_id"), Col("user_id"), Col("session_start"), Col("campaign_id"),
      Col("campaign_name"), Col("start_date"), Col("target")>>

\* [col for col in data_df.columns if col not in features_to_exclude and col != target]
FeatureList(cols) == SelectSeq2(cols, Range(cols) \ (Range(features_to_exclude) \cup {target}))

RECURSIVE SelectColumns(_, _)
\* data_df[names].columns: every column carrying a listed name, per listed name
SelectColumns(cols, names) ==
    IF names = <<>> THEN <<>>
    ELSE SelectSeq2(cols, {Head(names)}) \o SelectColumns(cols, Tail(names))

NoDuplicates(s) == Cardinality(Range(s)) = Len(s)

(***************************************************************************)
(* scikit-learn and XGBoost.                                               *)
(***************************************************************************)
\* What a fitted classifier does with a row's feature vector (abstracted to the bit f):
\* it ranks with the feature, against it, or gives every row the same score.
Outcomes == {"with", "against", "flat"}

Predict(h, row) == IF h = "with" THEN row.f ELSE IF h = "against" THEN 1 - row.f ELSE 0

NotAScore(kind) == [kind |-> kind, num |-> 0, den |-> 0]

\* The fraction num/den of (positive, negative) pairs of the rows that classifier h
\* ranks right, a tie counting half.
PairCount(rows, h) ==
    LET pos == {i \in 1..Len(rows) : rows[i].converted = 1}
        neg == {i \in 1..Len(rows) : rows[i].converted = 0}
        right == {pr \in pos \X neg : Predict(h, rows[pr[1]]) > Predict(h, rows[pr[2]])}
        tied == {pr \in pos \X neg : Predict(h, rows[pr[1]]) = Predict(h, rows[pr[2]])}
    IN  [kind |-> "score",
         num |-> 2 * Cardinality(right) + Cardinality(tied),
         den |-> 2 * Cardinality(pos) * Cardinality(neg)]

OneClass(rows) == \A i, j \in 1..Len(rows) : rows[i].converted = rows[j].converted

\* A score that falls back to 0.5 where the AUC is not defined.
RocAucDefault(rows, h) ==
    IF OneClass(rows) THEN [kind |-> "score", num |-> 1, den |-> 2] ELSE PairCount(rows, h)
\* roc_auc_score(y_true, preds) of the rows under classifier h; of kind "empty" (a
\* ValueError) when there is no row and "undefined" when only one class is present.
RocAuc(rows, h) ==
    IF Len(rows) = 0 THEN NotAScore("empty")
    ELSE IF OneClass(rows) THEN NotAScore("undefined")
    ELSE PairCount(rows, h)

IsScore(v) == v.kind = "score"

Greater(a, b) == a.num * b.den > b.num * a.den

(***************************************************************************)
(* The Optuna study.                                                       *)
(***************************************************************************)
n_trials == 25

\* Parameter sets trial.suggest_* can return: the two corners of the search space
\* (learning_rate, subsample and colsample_bytree in hundredths).
Suggestions ==
    { [n_estimators |-> 200, learning_rate |-> 1, max_depth |-> 3,
       subsample |-> 60, colsample_bytree |-> 60, gamma |-> 0],
      [n_estimators |-> 1000, learning_rate |-> 30, max_depth |-> 10,
       subsample |-> 100, colsample_bytree |-> 100, gamma |-> 5] }

\* None, and a value that is set.
None == <<>>
Some(v) == <<v>>
Get(o) == o[1]

\* An objective that scores its trials on the test slice.
ObjectiveEvalLeak == "test"
\* The slice the objective passes as eval_set and scores the trial on.
ObjectiveEval == "tune"

SliceNamed(name, t, tr, tu) ==
    IF name = "train" THEN TrainSlice(t, tr, tu)
    ELSE IF name = "tune" THEN TuneSlice(t, tr, tu)
    ELSE TestSlice(t, tr, tu)

\* objective(trial) for the suggested parameter set p on table t: of kind "raise" when
\* fit cannot run, else roc_auc_score's result on the evaluation slice.
Objective(p, t, tr, tu, xcols, fit) ==
    IF ~NoDuplicates(xcols) THEN NotAScore("raise")       \* feature names must be unique
    ELSE IF Len(SliceNamed("train", t, tr, tu)) = 0 THEN NotAScore("raise")
    ELSE RocAuc(SliceNamed(ObjectiveEval, t, tr, tu), fit[p])

\* A study that keeps the lowest score (direction='minimize').
UpdateBestMinimize(b, p, v) ==
    IF b = None \/ Greater(Get(b).value, v) THEN Some([params |-> p, value |-> v]) ELSE b
\* A study that replaces its best trial by a later one that scores as high.
UpdateBestLast(b, p, v) ==
    IF b = None \/ ~Greater(Get(b).value, v) THEN Some([params |-> p, value |-> v]) ELSE b
\* The study keeps the first trial as best and replaces it by a later one that
\* scores strictly higher (direction='maximize').
UpdateBest(b, p, v) ==
    IF b = None \/ Greater(v, Get(b).value) THEN Some([params |-> p, value |-> v]) ELSE b

RECURSIVE BestOver(_, _, _, _, _, _, _)
\* The study's best trial after the parameter sets ps were tried in order on table t,
\* from b; a trial without a score leaves it as it is.
BestOver(ps, t, tr, tu, xcols, fit, b) ==
    IF ps = <<>> THEN b
    ELSE LET v == Objective(Head(ps), t, tr, tu, xcols, fit)
         IN  BestOver(Tail(ps), t, tr, tu, xcols, fit,
                      IF IsScore(v) THEN UpdateBest(b, Head(ps), v) ELSE b)

(***************************************************************************)
(* The inputs of a run: the two CSV files, the library's fit outcomes and   *)
(* what an earlier run left on disk.                                       *)
(***************************************************************************)
SessionColumns ==
    <<Col("session_id"), Col("user_id"), Col("session_start"), Col("campaign_id"),
      Col("utm_source"), Col("utm_medium"), Col("converted")>>

CampaignColumns ==
    <<Col("campaign_id"), Col("campaign_name"), Col("start_date"), Col("spend"),
      Col("creative_format"), Col("creative_theme"), Col("effectiveness_tier")>>

\* Column lists the two files can come with: the documented ones, a further column,
\* a column called 'target', a column named like an indicator column, a column on
\* both sides, and a required column missing.
Schemas ==
    { <<SessionColumns, CampaignColumns>>,
      <<Append(SessionColumns, Col("device_score")), CampaignColumns>>,
      <<Append(SessionColumns, Col("target")), CampaignColumns>>,
      <<Append(SessionColumns, <<"utm_source", "nan">>), CampaignColumns>>,
      <<Append(SessionColumns, Col("spend")), CampaignColumns>>,
      <<SubSeq(SessionColumns, 1, 6), CampaignColumns>>,
      <<SubSeq(SessionColumns, 1, 2) \o SubSeq(SessionColumns, 4, 7), CampaignColumns>>,
      <<SessionColumns, SubSeq(CampaignColumns, 1, 3) \o SubSeq(CampaignColumns, 5, 7)>>,
      <<SessionColumns, SubSeq(CampaignColumns, 1, 6)>>,
      <<SessionColumns, Tail(CampaignColumns)>> }

Reverse(s) == [i \in 1..Len(s) |-> s[Len(s) + 1 - i]]

\* The i-th session in time: a feature that tells the outcome.
BaseRow(i) == [session_id |-> i, session_start |-> i, f |-> i % 2, converted |-> i % 2]

BaseTable(n) == [i \in 1..n |-> BaseRow(i)]

\* Tables of n sessions in which the two rows before the last three and the last two
\* rows have any feature and outcome (with 14 or 15 sessions: the tuning slice and two
\* of the three test rows).
FreeRows(n) == {n - 4, n - 3, n - 1, n} \cap (1..n)

Tables(n, free) ==
    { [i \in 1..n |->
         IF i \in free THEN [session_id |-> i, session_start |-> i,
                             f |-> fy[i][1], converted |-> fy[i][2]]
         ELSE BaseRow(i)]
      : fy \in [free -> {0, 1} \X {0, 1}] }

\* The base table with every two sessions sharing a timestamp.
TiedTable(n) ==
    [i \in 1..n |-> [session_id |-> i, session_start |-> (i + 1) \div 2,
                     f |-> i % 2, converted |-> i % 2]]

BaseFit == [p \in Suggestions |-> IF p.max_depth = 3 THEN "with" ELSE "against"]

EmptyDisk == [model |-> None, features |-> None]

\* The pair an earlier run exported (from a table with other columns).
PriorModel ==
    [params |-> CHOOSE p \in Suggestions : p.max_depth = 3, rows |-> <<1, 2>>,
     columns |-> <<Col("spend"), Col("clicks")>>, h |-> "flat"]
PriorDisk == [model |-> Some(PriorModel), features |-> Some(PriorModel.columns)]

Input(t, sc, cc, fit, d) ==
    [sessions |-> t, sessCols |-> sc, campCols |-> cc, xgbFit |-> fit, disk |-> d]

\* The runs checked: every table size; the largest table with every tuning slice, test
\* rows and fit outcome; the base table with every schema; the base table in other
\* file orders; a re-run over the artifacts of an earlier run.
Inputs ==
    { Input(Reverse(BaseTable(n)), SessionColumns, CampaignColumns, BaseFit, EmptyDisk) :
        n \in 0..MaxN }
    \cup { Input(Reverse(t), SessionColumns, CampaignColumns, fit, EmptyDisk) :
             t \in Tables(MaxN, FreeRows(MaxN)), fit \in [Suggestions -> Outcomes] }
    \cup { Input(BaseTable(MaxN), sch[1], sch[2], BaseFit, EmptyDisk) : sch \in Schemas }
    \cup { Input(t, SessionColumns, CampaignColumns, BaseFit, EmptyDisk) :
             t \in {BaseTable(MaxN), TiedTable(MaxN), Reverse(TiedTable(MaxN))} }
    \cup { Input(Reverse(BaseTable(MaxN)), SessionColumns, CampaignColumns, BaseFit, PriorDisk) }

HarnessOff == hpc = "off" /\ hIn = 0 /\ hOut = 0

\* The pitch-deck page is not open.
DeckOff ==
    /\ slides = 0
    /\ currentSlide = 0
    /\ totalSlides = 0
    /\ active = {}
    /\ prevDisabled = FALSE
    /\ nextDisabled = FALSE
    /\ slideCounter = <<0, 0>>
    /\ loaded = FALSE

Init ==
    /\ \E in \in Inputs :
         /\ sessions = in.sessions
         /\ sessCols = in.sessCols
         /\ campCols = in.campCols
         /\ xgbFit = in.xgbFit
         /\ disk = in.disk
    /\ pc = "load"
    /\ err = ""
    /\ data_df = <<>>
    /\ columns = <<>>
    /\ features = <<>>
    /\ X_columns = <<>>
    /\ train_size = 0
    /\ tune_size = 0
    /\ trialNo = 0
    /\ completed = <<>>
    /\ best = None
    /\ best_params = None
    /\ final_model = None
    /\ test_auc = None
    /\ reads = {}
    /\ scored = 0
    /\ reloaded_auc = None
    /\ HarnessOff
    /\ DeckOff

(***************************************************************************)
(* The notebook's cells.                                                   *)
(***************************************************************************)
Raise(at) == pc' = "error" /\ err' = at

\* Cell "1. Load and Prepare Data": read_csv, to_datetime, merge.
LoadMerge ==
    /\ pc = "load"
    /\ IF /\ Col("session_start") \in Range(sessCols)
          /\ Col("start_date") \in Range(campCols)
          /\ Col("campaign_id") \in Range(sessCols) \cap Range(campCols)
       THEN /\ data_df' = sessions
            /\ columns' = MergeColumns(sessCols, campCols)
            /\ pc' = "encode"
            /\ err' = err
       ELSE /\ Raise("load")
            /\ UNCHANGED <<data_df, columns>>
    /\ UNCHANGED <<sessions, sessCols, campCols, xgbFit, features, X_columns, train_size, tune_size,
                   trialNo, completed, best, best_params, final_model, test_auc, disk,
                   reads, scored, reloaded_auc, harnessVars>>

\* Cell "2. Feature Engineering": the calendar columns, get_dummies, fillna of spend.
EncodedColumns(cols) ==
    GetDummies(AssignColumn(AssignColumn(AssignColumn(cols, Col("hour_of_day")),
                                         Col("day_of_week")), Col("month")))

Encode ==
    /\ pc = "encode"
    /\ IF /\ Col("session_start") \in Range(columns)
          /\ Range(categorical_cols) \subseteq Range(columns)
          /\ Col("spend") \in Range(EncodedColumns(columns))
       THEN /\ columns' = EncodedColumns(columns)
            /\ pc' = "split"
            /\ err' = err
       ELSE /\ Raise("encode")
            /\ UNCHANGED columns
    /\ UNCHANGED <<sessions, sessCols, campCols, xgbFit, data_df, features, X_columns, train_size,
                   tune_size, trialNo, completed, best, best_params, final_model,
                   test_auc, disk, reads, scored, reloaded_auc, harnessVars>>

\* The table sorted by time, with its two split points.
SortAndSplit(t) ==
    { [data_df |-> sorted, train_size |-> TrainSize(Len(sorted)),
       tune_size |-> TuneSize(Len(sorted))] : sorted \in SortValues(t) }

\* Cell "3. Data Splitting": sort by time, the feature list, the two split points.
Split ==
    /\ pc = "split"
    /\ \E r \in SortAndSplit(data_df) :
         /\ data_df' = r.data_df
         /\ IF target \in Range(columns)
            THEN /\ features' = FeatureList(columns)
                 /\ X_columns' = SelectColumns(columns, FeatureList(columns))
                 /\ train_size' = r.train_size
                 /\ tune_size' = r.tune_size
                 /\ pc' = "tune"
                 /\ err' = err
            ELSE /\ features' = FeatureList(columns)
                 /\ X_columns' = SelectColumns(columns, FeatureList(columns))
                 /\ Raise("split")
                 /\ UNCHANGED <<train_size, tune_size>>
    /\ UNCHANGED <<sessions, sessCols, campCols, xgbFit, columns, trialNo, completed,
                   best, best_params, final_model, test_auc, disk, reads, scored,
                   reloaded_auc, harnessVars>>

\* One trial of study.optimize: objective(trial) with a suggested parameter set.  An
\* exception in the objective ends optimize; a nan score fails the trial only.
Trial ==
    /\ pc = "tune"
    /\ trialNo < n_trials
    /\ \E p \in Suggestions :
         LET v == Objective(p, data_df, train_size, tune_size, X_columns, xgbFit)
         IN  /\ trialNo' = trialNo + 1
             /\ reads' = reads \cup {"train", ObjectiveEval}
             /\ \/ /\ IsScore(v)
                   /\ best' = UpdateBest(best, p, v)
                   /\ completed' = IF p \in Range(completed) THEN completed
                                   ELSE Append(completed, p)
                   /\ UNCHANGED <<pc, err>>
                \/ /\ v.kind = "undefined"          \* roc_auc_score warns and returns nan
                   /\ UNCHANGED <<pc, err, best, completed>>
                \/ /\ ~IsScore(v)                   \* fit or roc_auc_score raises
                   /\ Raise("tune")
                   /\ UNCHANGED <<best, completed>>
    /\ UNCHANGED <<sessions, sessCols, campCols, xgbFit, data_df, columns, features, X_columns,
                   train_size, tune_size, best_params, final_model, test_auc, disk,
                   scored, reloaded_auc, harnessVars>>

\* After optimize returns: study.best_value and study.best_params, which raise when
\* no trial completed.
StudyDone ==
    /\ pc = "tune"
    /\ trialNo = n_trials
    /\ IF best = None
       THEN /\ Raise("tune")
            /\ UNCHANGED best_params
       ELSE /\ best_params' = Some(Get(best).params)
            /\ pc' = "final_fit"
            /\ err' = err
    /\ UNCHANGED <<sessions, sessCols, campCols, xgbFit, data_df, columns, features, X_columns,
                   train_size, tune_size, trialNo, completed, best, final_model,
                   test_auc, disk, reads, scored, reloaded_auc, harnessVars>>

RowIds(rows) == [i \in 1..Len(rows) |-> rows[i].session_id]

\* A final fit on the whole table.
TrainFullAll(t, tr, tu) == t
\* X_train_full = pd.concat([X_train, X_tune])
TrainFull(t, tr, tu) == TrainSlice(t, tr, tu) \o TuneSlice(t, tr, tu)

\* The classifier fitted on rows with parameters p, ranking as h.
Fitted(p, rows, xcols, h) == [params |-> p, rows |-> RowIds(rows), columns |-> xcols, h |-> h]

\* Cell "5. Final Model Evaluation", the fit: XGBClassifier(**best_params).fit(...).
FinalFit ==
    /\ pc = "final_fit"
    /\ \E h \in Outcomes :
         final_model' = Some(Fitted(Get(best_params),
                                    TrainFull(data_df, train_size, tune_size), X_columns, h))
    /\ reads' = reads \cup {"train", "tune"}
    /\ pc' = "evaluate"
    /\ UNCHANGED <<err, sessions, sessCols, campCols, xgbFit, data_df, columns, features, X_columns,
                   train_size, tune_size, trialNo, completed, best, best_params, test_auc,
                   disk, scored, reloaded_auc, harnessVars>>

\* Cell 5, the evaluation: predict_proba(X_test) and roc_auc_score(y_test, test_preds).
Evaluate ==
    /\ pc = "evaluate"
    /\ LET v == RocAuc(TestSlice(data_df, train_size, tune_size), Get(final_model).h)
       IN  \/ /\ IsScore(v)
              /\ test_auc' = Some(v)
              /\ pc' = "importance"
              /\ err' = err
           \/ /\ v.kind = "undefined"               \* roc_auc_score warns and returns nan
              /\ test_auc' = Some(NotAScore("nan"))
              /\ pc' = "importance"
              /\ err' = err
           \/ /\ ~IsScore(v)                        \* roc_auc_score raises
              /\ Raise("evaluate")
              /\ UNCHANGED test_auc
    /\ reads' = reads \cup {"test"}
    /\ scored' = scored + 1
    /\ UNCHANGED <<sessions, sessCols, campCols, xgbFit, data_df, columns, features, X_columns,
                   train_size, tune_size, trialNo, completed, best, best_params,
                   final_model, disk, reloaded_auc, harnessVars>>

\* Cell "Feature Importance": one importance per feature, or the frame cannot be built.
Importance ==
    /\ pc = "importance"
    /\ IF Len(features) = Len(Get(final_model).columns)
       THEN pc' = "dump_model" /\ err' = err
       ELSE Raise("importance")
    /\ UNCHANGED <<sessions, sessCols, campCols, xgbFit, data_df, columns, features, X_columns,
                   train_size, tune_size, trialNo, completed, best, best_params,
                   final_model, test_auc, disk, reads, scored, reloaded_auc, harnessVars>>

\* An export of a model refitted on the whole table.
DumpedModelRefit == Some(Fitted(Get(best_params), data_df, X_columns, "flat"))
\* What joblib.dump(final_model, model_path) is given.
DumpedModel == final_model
\* An export of every column name of the table.
DumpedColumns == columns
\* What joblib.dump(features, features_path) is given.
DumpedFeatures == features

\* Cell "6. Save Model and Features", joblib.dump(final_model, model_path): the file
\* is written, or the write fails.
DumpModel ==
    /\ pc = "dump_model"
    /\ \/ /\ disk' = [disk EXCEPT !.model = DumpedModel]
          /\ pc' = "dump_features"
          /\ err' = err
       \/ /\ Raise("dump_model")
          /\ UNCHANGED disk
    /\ UNCHANGED <<sessions, sessCols, campCols, xgbFit, data_df, columns, features, X_columns,
                   train_size, tune_size, trialNo, completed, best, best_params,
                   final_model, test_auc, reads, scored, reloaded_auc, harnessVars>>

\* Cell 6, joblib.dump(features, features_path).
DumpFeatures ==
    /\ pc = "dump_features"
    /\ \/ /\ disk' = [disk EXCEPT !.features = Some(DumpedFeatures)]
          /\ pc' = "done"
          /\ err' = err
       \/ /\ Raise("dump_features")
          /\ UNCHANGED disk
    /\ UNCHANGED <<sessions, sessCols, campCols, xgbFit, data_df, columns, features, X_columns,
                   train_size, tune_size, trialNo, completed, best, best_params,
                   final_model, test_auc, reads, scored, reloaded_auc, harnessVars>>

\* joblib.load of a file written by joblib.dump: the object that was dumped.
JoblibLoad(file) == Get(file)

\* A consumer of the two files on the test slice of table t with the columns cols: it
\* loads the pair, selects the columns the loaded feature list names, predicts with
\* the loaded model (which takes the columns it was fitted on and no others) and
\* scores the predictions.
ReloadedScore(d, t, tr, tu, cols) ==
    LET model == JoblibLoad(d.model)
        names == JoblibLoad(d.features)
    IN  IF SelectColumns(cols, names) # model.columns THEN NotAScore("raise")
        ELSE RocAuc(TestSlice(t, tr, tu), model.h)

\* The round trip after a finished export: load the pair and score the test slice.
Reload ==
    /\ pc = "done"
    /\ LET v == ReloadedScore(disk, data_df, train_size, tune_size, columns)
       IN  \/ /\ IsScore(v)
              /\ reloaded_auc' = Some(v)
              /\ pc' = "reloaded"
              /\ err' = err
           \/ /\ v.kind = "undefined"               \* roc_auc_score warns and returns nan
              /\ reloaded_auc' = Some(NotAScore("nan"))
              /\ pc' = "reloaded"
              /\ err' = err
           \/ /\ ~IsScore(v)                        \* predict or roc_auc_score raises
              /\ Raise("reload")
              /\ UNCHANGED reloaded_auc
    /\ UNCHANGED <<sessions, sessCols, campCols, xgbFit, data_df, columns, features, X_columns,
                   train_size, tune_size, trialNo, completed, best, best_params,
                   final_model, test_auc, disk, reads, scored, harnessVars>>

Next ==
    \/ LoadMerge
    \/ Encode
    \/ Split
    \/ Trial
    \/ StudyDone
    \/ FinalFit
    \/ Evaluate
    \/ Importance
    \/ DumpModel
    \/ DumpFeatures
    \/ Reload

Spec == Init /\ [][Next]_vars

(***************************************************************************)
(* The split on its own: the split arithmetic for every record count up to *)
(* MaxSplitN, and sort-and-split for every small table of timestamps.      *)
(***************************************************************************)
PipelineOff ==
    /\ pc = "off"
    /\ err = ""
    /\ sessions = <<>>
    /\ sessCols = <<>>
    /\ campCols = <<>>
    /\ xgbFit = BaseFit
    /\ disk = EmptyDisk
    /\ data_df = <<>>
    /\ columns = <<>>
    /\ features = <<>>
    /\ X_columns = <<>>
    /\ train_size = 0
    /\ tune_size = 0
    /\ trialNo = 0
    /\ completed = <<>>
    /\ best = None
    /\ best_params = None
    /\ final_model = None
    /\ test_auc = None
    /\ reads = {}
    /\ scored = 0
    /\ reloaded_auc = None

\* The three slices of a table of n records, as the positions they hold.
SplitPositions(n) ==
    LET t == [i \in 1..n |-> i]
    IN  [train |-> TrainSlice(t, TrainSize(n), TuneSize(n)),
         tune |-> TuneSlice(t, TrainSize(n), TuneSize(n)),
         test |-> TestSlice(t, TrainSize(n), TuneSize(n))]

InitSplit ==
    /\ PipelineOff
    /\ DeckOff
    /\ hpc = "in"
    /\ hIn \in 0..MaxSplitN
    /\ hOut = SplitPositions(0)

ApplySplit ==
    /\ hpc = "in"
    /\ hOut' = SplitPositions(hIn)
    /\ hpc' = "out"
    /\ UNCHANGED <<hIn, pipeVars, deckVars>>

SplitSpec == InitSplit /\ [][ApplySplit]_vars

\* Tables of at most MaxSortN sessions with any timestamps up to MaxTs, in any order.
TimedTables ==
    UNION { { [i \in 1..n |-> [session_id |-> i, session_start |-> ts[i],
                               f |-> 0, converted |-> 0]] : ts \in [1..n -> 1..MaxTs] }
            : n \in 0..MaxSortN }

InitSort ==
    /\ PipelineOff
    /\ DeckOff
    /\ hpc = "in"
    /\ hIn \in TimedTables
    /\ hOut = [data_df |-> <<>>, train_size |-> 0, tune_size |-> 0]

ApplySortAndSplit ==
    /\ hpc = "in"
    /\ hOut' \in SortAndSplit(hIn)
    /\ hpc' = "out"
    /\ UNCHANGED <<hIn, pipeVars, deckVars>>

SortSpec == InitSort /\ [][ApplySortAndSplit]_vars

(***************************************************************************)
(* Merge and encoding on their own, at the level of the rows: a row is a   *)
(* function from column names to cells.                                    *)
(***************************************************************************)
\* A missing value (NaN, NaT), and a cell holding v.
NaN == <<>>
Cell(v) == <<v>>

\* A left join that keeps matched sessions only.
MergeUnmatchedInner(l, campOnly) == <<>>
\* What how='left' makes of a session row l that matches no campaign: the row, with
\* every column of the campaign table missing.
MergeUnmatched(l, campOnly) == <<l @@ [c \in campOnly |-> NaN]>>

RECURSIVE MergeRows(_, _, _)
\* pd.merge(left, right, on='campaign_id', how='left') with right's columns rc: a row
\* per matching campaign, in the order of the sessions (pandas matches a missing key
\* with a missing key).
MergeRows(left, right, rc) ==
    IF left = <<>> THEN <<>>
    ELSE LET l == Head(left)
             key == Col("campaign_id")
             ms == SelectSeq(right, LAMBDA r : r[key] = l[key])
         IN  (IF ms = <<>> THEN MergeUnmatched(l, Range(rc) \ {key})
              ELSE [i \in 1..Len(ms) |-> l @@ ms[i]])
             \o MergeRows(Tail(left), right, rc)

\* session_start.dt.hour, .dt.dayofweek and .dt.month of a row.
CalendarColumns(row) ==
    LET ts == row[Col("session_start")]
    IN  [c \in {Col("hour_of_day"), Col("day_of_week"), Col("month")} |->
           IF ts = NaN THEN NaN
           ELSE IF c = Col("hour_of_day") THEN Cell(ts[1].hour)
           ELSE IF c = Col("day_of_week") THEN Cell(ts[1].dayofweek)
           ELSE Cell(ts[1].month)]

\* The indicator column n = <<column, value>> of a row: set when the row's column
\* holds the value; the indicator <<column, "nan">> is set when it is missing.
DummyCell(row, n) ==
    IF n[2] = "nan" THEN row[Col(n[1])] = NaN ELSE row[Col(n[1])] = Cell(n[2])

\* pd.get_dummies(data_df, columns=categorical_cols, dummy_na=True) on a row with the
\* columns cols.
GetDummiesRow(row, cols) ==
    [n \in Range(GetDummies(cols)) |-> IF Len(n) = 1 THEN row[n] ELSE Cell(DummyCell(row, n))]

\* data_df['spend'] = data_df['spend'].fillna(0)
FillnaSpend(row) == [row EXCEPT ![Col("spend")] = IF @ = NaN THEN Cell(0) ELSE @]

\* Cells 1 and 2 on the rows of the two tables with the columns sc and cc.
EncodeRows(ss, cs, sc, cc) ==
    LET merged == MergeRows(ss, cs, cc)
        cols == AssignColumn(AssignColumn(AssignColumn(MergeColumns(sc, cc),
                    Col("hour_of_day")), Col("day_of_week")), Col("month"))
    IN  [i \in 1..Len(merged) |->
           FillnaSpend(GetDummiesRow(CalendarColumns(merged[i]) @@ merged[i], cols))]

\* The documented columns, and the same with the two utm columns in campaigns.csv.
EncodeSchemas ==
    { <<SessionColumns, CampaignColumns>>,
      <<SelectSeq2(SessionColumns, Range(SessionColumns) \ {Col("utm_source"), Col("utm_medium")}),
        CampaignColumns \o <<Col("utm_source"), Col("utm_medium")>>>> }

Stamp == [month |-> 3, dayofweek |-> 2, hour |-> 14]

\* A row of sessions.csv with the columns sc.
SessionRow(sc, id, k, u, m) ==
    [c \in Range(sc) |->
       IF c = Col("session_id") THEN Cell(id)
       ELSE IF c = Col("campaign_id") THEN k
       ELSE IF c = Col("utm_source") THEN u
       ELSE IF c = Col("utm_medium") THEN m
       ELSE IF c = Col("session_start") THEN Cell(Stamp)
       ELSE Cell(1)]

\* A row of campaigns.csv with the columns cc, the categorical ones holding cat.
CampaignRow(cc, id, spend, cat) ==
    [c \in Range(cc) |->
       IF c = Col("campaign_id") THEN Cell(id)
       ELSE IF c = Col("spend") THEN spend
       ELSE IF c \in Range(categorical_cols) THEN cat
       ELSE Cell(1)]

\* Campaign tables: none, one campaign, two, and two rows for one campaign; every row
\* has its id, a spend and a category may be missing in the file.
CampaignTables(cc) ==
    { <<>>,
      <<CampaignRow(cc, 1, Cell(5), Cell("a"))>>,
      <<CampaignRow(cc, 1, Cell(5), Cell("a")), CampaignRow(cc, 2, NaN, NaN)>>,
      <<CampaignRow(cc, 1, Cell(5), Cell("b")), CampaignRow(cc, 1, Cell(7), Cell("a"))>> }

CategoryCells == {NaN} \cup {Cell(CategoryValues[i]) : i \in 1..Len(CategoryValues)}

\* A session of campaign 1 followed by a session with any join key (missing, of a
\* campaign, of no campaign) and any source and medium.
EncodeInputs ==
    UNION { { [sessions |-> <<SessionRow(sch[1], 1, Cell(1), Cell("a"), Cell("b")),
                              SessionRow(sch[1], 2, k, u, m)>>,
               campaigns |-> cs, sessCols |-> sch[1], campCols |-> sch[2]]
              : k \in {NaN, Cell(1), Cell(2), Cell(9)}, u \in CategoryCells,
                m \in CategoryCells, cs \in CampaignTables(sch[2]) }
            : sch \in EncodeSchemas }

InitEncode ==
    /\ PipelineOff
    /\ DeckOff
    /\ hpc = "in"
    /\ hIn \in EncodeInputs
    /\ hOut = <<>>

ApplyEncode ==
    /\ hpc = "in"
    /\ hOut' = EncodeRows(hIn.sessions, hIn.campaigns, hIn.sessCols, hIn.campCols)
    /\ hpc' = "out"
    /\ UNCHANGED <<hIn, pipeVars, deckVars>>

EncodeSpec == InitEncode /\ [][ApplyEncode]_vars

(***************************************************************************)
(* The pitch-deck page (pitch_deck.html): three slides, a Previous and a   *)
(* Next button and a slide counter, driven by the page's script.           *)
(***************************************************************************)
\* Largest number of slides of a deck.
MaxSlides == 15

\* An update that disables Next one slide late.
updateSlideLate(cur, total) ==
    [active |-> {index \in 0..(total - 1) : index = cur},
     slideCounter |-> <<cur + 1, total>>,
     prevDisabled |-> cur = 0,
     nextDisabled |-> cur = total]
\* updateSlide() with currentSlide = cur and totalSlides = total: what it sets.
updateSlide(cur, total) ==
    [active |-> {index \in 0..(total - 1) : index = cur},
     slideCounter |-> <<cur + 1, total>>,
     prevDisabled |-> cur = 0,
     nextDisabled |-> cur = total - 1]

\* The page as its markup gives it: the first slide active, both buttons enabled, no
\* script variable set yet.
InitDeck ==
    /\ PipelineOff
    /\ HarnessOff
    /\ slides \in 1..MaxSlides
    /\ currentSlide = 0
    /\ totalSlides = 0
    /\ active = {0}
    /\ prevDisabled = FALSE
    /\ nextDisabled = FALSE
    /\ slideCounter = <<1, slides>>
    /\ loaded = FALSE

SetSlide(cur, total) ==
    /\ currentSlide' = cur
    /\ active' = updateSlide(cur, total).active
    /\ slideCounter' = updateSlide(cur, total).slideCounter
    /\ prevDisabled' = updateSlide(cur, total).prevDisabled
    /\ nextDisabled' = updateSlide(cur, total).nextDisabled

\* The script's top level: currentSlide = 0, totalSlides = slides.length, the two
\* click handlers, and the initial updateSlide().
Script ==
    /\ ~loaded
    /\ slides > 0
    /\ totalSlides' = slides
    /\ SetSlide(0, slides)
    /\ loaded' = TRUE
    /\ UNCHANGED <<slides, pipeVars, hpc, hIn, hOut>>

\* prevBtn's click handler.
ClickPrev ==
    /\ loaded
    /\ IF currentSlide > 0
       THEN SetSlide(currentSlide - 1, totalSlides)
       ELSE UNCHANGED <<currentSlide, active, slideCounter, prevDisabled, nextDisabled>>
    /\ UNCHANGED <<slides, totalSlides, loaded, pipeVars, hpc, hIn, hOut>>

\* nextBtn's click handler.
ClickNext ==
    /\ loaded
    /\ IF currentSlide < totalSlides - 1
       THEN SetSlide(currentSlide + 1, totalSlides)
       ELSE UNCHANGED <<currentSlide, active, slideCounter, prevDisabled, nextDisabled>>
    /\ UNCHANGED <<slides, totalSlides, loaded, pipeVars, hpc, hIn, hOut>>

NextDeck ==
    \/ Script
    \/ ClickPrev
    \/ ClickNext

DeckSpec == InitDeck /\ [][NextDeck]_vars

(***************************************************************************)
(* Properties.                                                             *)
(***************************************************************************)
X_train == TrainSlice(data_df, train_size, tune_size)
X_tune == TuneSlice(data_df, train_size, tune_size)
X_test == TestSlice(data_df, train_size, tune_size)

\* The split cell has run and set the split points.
SplitDone == pc \in {"tune", "final_fit", "evaluate", "importance", "dump_model",
                     "dump_features", "done", "reloaded"}
             \/ (pc = "error" /\ err \notin {"load", "encode", "split"})

\* The search has ended with a best parameter set.
SearchDone == best_params # None

Ascending(rows) ==
    \A i, j \in 1..Len(rows) : i < j => rows[i].session_start <= rows[j].session_start

NotAfter(a, b) ==
    \A i \in 1..Len(a), j \in 1..Len(b) : a[i].session_start <= b[j].session_start

ScoreOf(p) == Objective(p, data_df, train_size, tune_size, X_columns, xgbFit)

SameScore(a, b) == a.num * b.den = b.num * a.den

\* Every test slice of the length of the run's, with any features and outcomes.
OtherTests ==
    { [i \in 1..Len(X_test) |->
         [session_id |-> X_test[i].session_id, session_start |-> X_test[i].session_start,
          f |-> fy[i][1], converted |-> fy[i][2]]]
      : fy \in [1..Len(X_test) -> {0, 1} \X {0, 1}] }

\* C1: parameter selection is independent of the test slice.  Nothing reads the test
\* slice before the final evaluation scores it, and when the search has ended, the
\* same trials on the same training and tuning slices with any other test slice
\* select the same best trial, which is where best_params comes from.
C1_TestSliceNeverInfluencesSelection ==
    /\ scored = 0 => "test" \notin reads
    /\ pc = "final_fit" =>
         /\ best_params = Some(Get(best).params)
         /\ \A other \in OtherTests :
              BestOver(completed, X_train \o X_tune \o other, train_size, tune_size,
                       X_columns, xgbFit, None) = best

\* C1's case: a search that ended after both parameter sets completed with different
\* scores, over a table with a test slice.
C1_Witness ==
    /\ pc = "final_fit"
    /\ Len(completed) = 2
    /\ ~SameScore(ScoreOf(completed[1]), ScoreOf(completed[2]))
    /\ Len(X_test) = 3
    /\ reads = {"train", "tune"}

\* C2 (as claimed): for every record count N the training slice holds floor(0.70 N)
\* records, the tuning slice floor(0.15 N) and the test slice the rest; the slices are
\* contiguous ranges of positions, disjoint, and together hold every record once.
C2_SplitSizes ==
    hpc = "out" =>
        /\ Len(hOut.train) = (70 * hIn) \div 100
        /\ Len(hOut.tune) = (15 * hIn) \div 100
        /\ Len(hOut.test) = hIn - (70 * hIn) \div 100 - (15 * hIn) \div 100
        /\ hOut.train \o hOut.tune \o hOut.test = [i \in 1..hIn |-> i]

\* C3: after the sort the split keeps the order of time.  The sorted table holds the
\* rows of the input; no training row is later than a tuning row, no tuning row later
\* than a test row, and each slice is in ascending order of time.
C3_TemporalOrder ==
    hpc = "out" =>
        LET t == hOut.data_df
            tr == TrainSlice(t, hOut.train_size, hOut.tune_size)
            tu == TuneSlice(t, hOut.train_size, hOut.tune_size)
            te == TestSlice(t, hOut.train_size, hOut.tune_size)
        IN  /\ Len(t) = Len(hIn)
            /\ Range(t) = Range(hIn)
            /\ tr \o tu \o te = t
            /\ NotAfter(tr, tu)
            /\ NotAfter(tu, te)
            /\ Ascending(tr)
            /\ Ascending(tu)
            /\ Ascending(te)

\* C3's case: a table that came out of time order, with ties, split into three slices
\* that each hold a row.
C3_Witness ==
    /\ hpc = "out"
    /\ ~Ascending(hIn)
    /\ hOut.train_size > 0
    /\ hOut.tune_size > 0
    /\ Len(hIn) > hOut.train_size + hOut.tune_size
    /\ \E i, j \in 1..Len(hIn) : i # j /\ hIn[i].session_start = hIn[j].session_start

\* C4 (as claimed): the model file is never on disk without the feature list of the
\* model it holds, in any state of the export, an interrupted or failed one included.
C4_ArtifactsAlwaysPaired ==
    disk.model # None =>
        /\ disk.features # None
        /\ Get(disk.features) = Get(disk.model).columns

\* C5: the feature list this run persisted has no duplicate name and is, in order,
\* the column list of the matrix the final model was fitted on.
C5_PersistedFeaturesMatchFit ==
    pc = "done" =>
        /\ disk.features # None
        /\ NoDuplicates(Get(disk.features))
        /\ Get(disk.features) = Get(final_model).columns

\* C5's case: a finished export of a run whose table had a column beyond the
\* documented ones.
C5_Witness ==
    /\ pc = "done"
    /\ Col("device_score") \in Range(Get(disk.features))
    /\ Col("spend") \in Range(Get(disk.features))

\* C6: the search runs 25 trials and stops; the best parameter set it retains scored
\* the highest tuning AUC of all completed trials, and among the trials that share
\* that score it is the earliest.
C6_BudgetAndBestTrial ==
    /\ trialNo <= n_trials
    /\ SearchDone =>
         /\ trialNo = n_trials
         /\ best # None
         /\ best_params = Some(Get(best).params)
         /\ \E k \in 1..Len(completed) :
              /\ completed[k] = Get(best).params
              /\ ScoreOf(completed[k]) = Get(best).value
              /\ \A j \in 1..Len(completed) :
                   ~Greater(ScoreOf(completed[j]), Get(best).value)
              /\ \A j \in 1..(k - 1) : Greater(Get(best).value, ScoreOf(completed[j]))

\* C6's case: a search that ended with two parameter sets sharing the highest score.
C6_Witness ==
    /\ pc = "final_fit"
    /\ Len(completed) = 2
    /\ SameScore(ScoreOf(completed[1]), ScoreOf(completed[2]))
    /\ best_params = Some(completed[1])

\* C7: the final model is fitted with the winning parameter set, on the training rows
\* followed by the tuning rows in their order of time, and on no test row.
C7_FinalFitOnTrainAndTune ==
    final_model # None =>
        /\ Get(final_model).params = Get(best).params
        /\ Get(final_model).params = Get(best_params)
        /\ Get(final_model).rows = RowIds(X_train \o X_tune)
        /\ Get(final_model).rows = RowIds(SubSeq(data_df, 1, train_size + tune_size))
        /\ Range(Get(final_model).rows) \cap Range(RowIds(X_test)) = {}
        /\ Ascending(X_train \o X_tune)

\* C7's case: a final model fitted after a search, on a table with rows in every slice.
C7_Witness ==
    /\ pc = "evaluate"
    /\ final_model # None
    /\ Len(X_train) = train_size /\ train_size > 0
    /\ Len(X_tune) = 2
    /\ Len(X_test) > 0

PastEvaluation == pc \in {"importance", "dump_model", "dump_features", "done", "reloaded"}

\* C8: the test slice is scored once, after the final fit, and from then on neither
\* the model nor the parameters change: the model the export writes is the fitted
\* model that was scored.
C8_ScoredOnceThenFrozen ==
    /\ [](/\ scored <= 1
          /\ scored = 1 <=> "test" \in reads
          /\ scored = 1 => final_model # None
          /\ PastEvaluation => scored = 1 /\ test_auc # None
          /\ pc \in {"dump_features", "done"} => disk.model = final_model)
    /\ [][scored = 1 => /\ scored' = 1
                        /\ final_model' = final_model
                        /\ best_params' = best_params
                        /\ best' = best
                        /\ test_auc' = test_auc]_vars

\* C8's case: a finished export, after the one scoring of the test slice.
C8_Witness ==
    /\ pc = "done"
    /\ scored = 1
    /\ disk.model = final_model
    /\ IsScore(Get(test_auc))

\* C9: when the tuning or the test slice is empty, the run stops with an error in the
\* first trial of the search: no trial is scored, no best is selected, no test AUC is
\* reported and no later cell runs.
C9_EmptySliceIsAnError ==
    (SplitDone /\ (Len(X_tune) = 0 \/ Len(X_test) = 0)) =>
        /\ pc \in {"tune", "error"}
        /\ pc = "tune" => trialNo = 0
        /\ pc = "error" => err = "tune" /\ trialNo = 1
        /\ completed = <<>>
        /\ best = None
        /\ best_params = None
        /\ final_model = None
        /\ test_auc = None

\* C9's case: a table with records whose tuning slice is empty, stopped in the search.
C9_Witness ==
    /\ pc = "error"
    /\ err = "tune"
    /\ Len(data_df) > 1
    /\ Len(X_train) > 0
    /\ Len(X_tune) = 0

\* C10: when the tuning slice holds one outcome class only, no trial gets a score and
\* no best parameter set is selected; the search stops with an error.
C10_SingleClassTuneIsAnError ==
    (SplitDone /\ Len(X_tune) > 0 /\ OneClass(X_tune)) =>
        /\ pc \in {"tune", "error"}
        /\ pc = "error" => err = "tune"
        /\ completed = <<>>
        /\ best = None
        /\ best_params = None
        /\ final_model = None

\* C10's case: a tuning slice of two sessions of one class, a search that ran into it
\* and stopped with an error.
C10_Witness ==
    /\ pc = "error"
    /\ err = "tune"
    /\ trialNo >= 1
    /\ Len(X_tune) = 2
    /\ OneClass(X_tune)
    /\ NoDuplicates(X_columns)

\* The export has put this run's model on disk.
WroteModel == final_model # None /\ disk.model = final_model
\* The export has put this run's feature list on disk.
WroteFeatures == pc = "done" /\ disk.features = Some(features)

\* C11 (as claimed): a stage that fails ends the run.  When the run has stopped with
\* an error, the stages after the failed one have left no result (no feature list
\* after a failed load or encoding, no trial after a failed split, no final model and
\* no test score after a failed search, no export after a failed evaluation), and the
\* run has written no artifact: the disk holds what it held before the run.
C11_FailureIsTerminalNoArtifact ==
    (pc = "error" /\ err # "reload") =>
        /\ err \in {"load", "encode"} => features = <<>> /\ X_columns = <<>>
        /\ err \in {"load", "encode", "split"} => trialNo = 0 /\ best = None
        /\ err \in {"load", "encode", "split", "tune"} =>
             best_params = None /\ final_model = None /\ scored = 0 /\ test_auc = None
        /\ err = "evaluate" => test_auc = None /\ scored = 1
        /\ ~WroteModel
        /\ ~WroteFeatures
        /\ disk \in {EmptyDisk, PriorDisk}

\* The session of the input has no campaign: its join key is missing or is the key of
\* no row of the campaign table.
NoCampaign(se) ==
    \/ se[Col("campaign_id")] = NaN
    \/ \A j \in 1..Len(hIn.campaigns) :
         hIn.campaigns[j][Col("campaign_id")] # se[Col("campaign_id")]

\* The rows of the encoded table that come from the session se.
RowsOf(se) == {i \in 1..Len(hOut) : hOut[i][Col("session_id")] = se[Col("session_id")]}

\* In row r, of the indicator columns of column c only the one of a missing value is set.
AbsentFlagged(r, c) ==
    /\ r[c \o <<"nan">>] = Cell(TRUE)
    /\ \A v \in Range(CategoryValues) : r[c \o <<v>>] = Cell(FALSE)

\* In row r, the indicator columns of column c tell the value the session se has there.
FlagsOwnValue(r, c, se) ==
    /\ r[c \o <<"nan">>] = Cell(se[c] = NaN)
    /\ \A v \in Range(CategoryValues) : r[c \o <<v>>] = Cell(se[c] = Cell(v))

\* C12 (as claimed): a session without a campaign is one row of the encoded table, with
\* spend 0, and in every group of indicator columns only the indicator of a missing
\* value is set.
C12_NoCampaignAllAbsentFlagged ==
    hpc = "out" =>
        \A k \in 1..Len(hIn.sessions) :
            NoCampaign(hIn.sessions[k]) =>
                /\ Cardinality(RowsOf(hIn.sessions[k])) = 1
                /\ \A i \in RowsOf(hIn.sessions[k]) :
                     /\ hOut[i][Col("spend")] = Cell(0)
                     /\ \A c \in Range(categorical_cols) : AbsentFlagged(hOut[i], c)

\* C12 (amended): a session without a campaign is one row of the encoded table, with
\* spend 0; in every group of indicator columns of a categorical column of the campaign
\* table only the indicator of a missing value is set, and the groups of the session's
\* own categorical columns tell the session's values.
C12_NoCampaignCampaignColumnsAbsent ==
    hpc = "out" =>
        \A k \in 1..Len(hIn.sessions) :
            NoCampaign(hIn.sessions[k]) =>
                /\ Cardinality(RowsOf(hIn.sessions[k])) = 1
                /\ \A i \in RowsOf(hIn.sessions[k]) :
                     /\ hOut[i][Col("spend")] = Cell(0)
                     /\ \A c \in Range(categorical_cols) \cap Range(hIn.campCols) :
                          AbsentFlagged(hOut[i], c)
                     /\ \A c \in Range(categorical_cols) \cap Range(hIn.sessCols) :
                          FlagsOwnValue(hOut[i], c, hIn.sessions[k])

\* C12's case: a session with a source and a medium whose join key is the key of no
\* campaign, next to a session that has a campaign, both encoded.
C12_Witness ==
    /\ hpc = "out"
    /\ Col("utm_source") \in Range(hIn.sessCols)
    /\ hIn.sessions[2][Col("campaign_id")] = Cell(9)
    /\ hIn.sessions[2][Col("utm_source")] = Cell("a")
    /\ Len(hIn.campaigns) = 2
    /\ Len(hOut) = 2
    /\ hOut[1][Col("spend")] = Cell(5)
    /\ hOut[2][Col("spend")] = Cell(0)

\* The identifier columns and the timestamp and date columns of the two files.
Identifiers == {Col("session_id"), Col("user_id"), Col("campaign_id"), Col("campaign_name")}
Timestamps == {Col("session_start"), Col("start_date")}

\* The split cell has built the feature list.
FeaturesListed == SplitDone \/ (pc = "error" /\ err = "split")

\* C13 (as claimed): the feature list holds no identifier column, no timestamp or date
\* column and not the outcome column, and it holds every other column of the merged
\* and encoded table.
C13_FeaturesAreAllOtherColumns ==
    FeaturesListed =>
        /\ Range(features) \cap (Identifiers \cup Timestamps \cup {target}) = {}
        /\ Range(columns) \ (Identifiers \cup Timestamps \cup {target}) \subseteq Range(features)

C15_BestAtLeastAnyBaseline ==
    SearchDone =>
        \A baseline \in Suggestions :
            IsScore(ScoreOf(baseline)) => ~Greater(ScoreOf(baseline), Get(best).value)

\* C15 (amended): the best tuning AUC the search returns is at least the tuning AUC of
\* every fixed parameter set that one of its trials evaluated.
C15_BestAtLeastEveryTriedBaseline ==
    SearchDone =>
        \A baseline \in Suggestions :
            baseline \in Range(completed) =>
                /\ IsScore(Get(best).value)
                /\ ~Greater(ScoreOf(baseline), Get(best).value)

\* C15's case: a search that ended after it tried, among others, a parameter set that
\* scores lower than the best it returns.
C15_Witness ==
    /\ SearchDone
    /\ trialNo = n_trials
    /\ \E baseline \in Range(completed) \ {Get(best_params)} :
         Greater(Get(best).value, ScoreOf(baseline))

\* The run has scored the test slice and the AUC is below 0.5.
LowTestAuc == test_auc # None /\ IsScore(Get(test_auc)) /\ 2 * Get(test_auc).num < Get(test_auc).den

\* C16 (as claimed): a test AUC below 0.5 is not accepted silently.  The run signals it
\* in the evaluation cell (the notebook's one signal is to stop there with an error)
\* and goes on to no export: neither file is written.
C16_LowAucRaisesQualityWarning ==
    LowTestAuc =>
        /\ pc = "error"
        /\ err = "evaluate"
        /\ ~WroteModel
        /\ ~WroteFeatures

\* C17: of a table of N >= 1 records the test slice holds at least one record and at
\* least as many as the tuning slice (the remainder N - floor(0.70 N) - floor(0.15 N)
\* is at least 1); the training slice is empty for N = 1 only and the tuning slice for
\* N <= 6 only.
C17_TestSliceNeverEmpty ==
    (hpc = "out" /\ hIn >= 1) =>
        /\ Len(hOut.test) >= 1
        /\ Len(hOut.test) >= Len(hOut.tune)
        /\ hIn - (70 * hIn) \div 100 - (15 * hIn) \div 100 >= 1
        /\ Len(hOut.train) = 0 <=> hIn = 1
        /\ Len(hOut.tune) = 0 <=> hIn <= 6
        /\ Len(hOut.train) + Len(hOut.tune) + Len(hOut.test) = hIn

\* C17's case: the split of a single record, which leaves the training and the tuning
\* slice empty and the record in the test slice.
C17_Witness ==
    /\ hpc = "out"
    /\ hIn = 1
    /\ hOut.train = <<>>
    /\ hOut.tune = <<>>
    /\ hOut.test = <<1>>

\* C18: in the pitch-deck page, after any clicks on Previous and Next, currentSlide is
\* an index of a slide, the slide of that index and no other is active, Previous is
\* disabled exactly on the first slide and Next exactly on the last, and a click on
\* Previous on the first slide or on Next on the last changes nothing.
C18_SlideNavigationInRange ==
    /\ [](loaded =>
            /\ 0 <= currentSlide
            /\ currentSlide <= totalSlides - 1
            /\ totalSlides = slides
            /\ active = {currentSlide}
            /\ prevDisabled <=> currentSlide = 0
            /\ nextDisabled <=> currentSlide = totalSlides - 1
            /\ slideCounter = <<currentSlide + 1, totalSlides>>)
    /\ [][((ClickPrev /\ currentSlide = 0) \/ (ClickNext /\ currentSlide = totalSlides - 1))
            => UNCHANGED vars]_vars

\* C18's case: the three-slide deck on its last slide, reached by clicks on Next, with
\* Next disabled and Previous enabled.
C18_Witness ==
    /\ loaded
    /\ slides = 3
    /\ currentSlide = 2
    /\ active = {2}
    /\ nextDisabled
    /\ ~prevDisabled

====
